---- MODULE Spec2Model ----
(***************************************************************************)
(* HTMLModal (src/src/classes/HTMLModal.ts): a host that registers modal   *)
(* items (dialog, side, snack-bar), defers registration until the          *)
(* document's DOMContentLoaded event, and opens items into one shared      *)
(* container element whose inline style it sets on open and resets when    *)
(* the last child is removed.                                              *)
(*                                                                         *)
(* The generic library "tunangn-modal" (Modal, Dialog, Side, Snackbar) and *)
(* the helpers ElementUtils / ModalStyles are not part of the source file; *)
(* they are modelled from their documented contract: a name -> item map    *)
(* with overwrite, getItem returning undefined for an unknown name, and    *)
(* item.open(append, remove) calling append once, at or after the call,    *)
(* and remove when the item's close action fires.                          *)
(***************************************************************************)
EXTENDS Integers, Sequences, FiniteSets, TLC

\* ------------------------------------------------------------------ bounds
\* addItem calls, over all hosts
MaxAdds == 2
\* open calls, over all hosts
MaxOpens == 2
\* addItem and open calls together
MaxCalls == 4

\* ------------------------------------------------------------------ inputs
AllHosts == {1, 2}
Names == {"a", "b"}
\* options.name left out (undefined)
Missing == "<undefined>"
NameInputs == Names \cup {"", Missing}
Kinds == {"dialog", "side", "snack-bar"}
\* options.type as a caller can pass it at run time
TypeInputs == Kinds \cup {"other"}
\* what an item's close action hands to its open mechanics
Results == {"agree", "deny"}
NoClass == ""
ClassNames == {"custom"}

\* ------------------------------------------------------------------ values
\* HTMLModal._uid
Uid == "__tunangn_modal__"

\* the value `undefined` where an item is expected
UndefinedItem == [id |-> 0, name |-> "", type |-> "undefined"]
\* a name the registry holds no entry for
NoEntry == [id |-> 0, name |-> "", type |-> "absent"]

\* ModalStyles.Default, restricted to the properties open and _remove touch
Default == [display |-> "none"]
\* ModalStyles.TranparentBlackBG
TranparentBlackBG == [backgroundColor |-> "rgba(0, 0, 0, 0.2)", pointerEvents |-> "auto"]

\* the inline style of a freshly created element
NoStyle == [display |-> "", backgroundColor |-> "", pointerEvents |-> ""]
\* document.createElement("div")
NewElement == [uid |-> "", classes |-> {}, style |-> NoStyle, children |-> << >>]

\* ElementUtils.addStyle(element, style): assign every property of style
addStyle(st, style) ==
  [k \in DOMAIN st |-> IF k \in DOMAIN style THEN style[k] ELSE st[k]]

\* !options.name
Falsy(n) == n = "" \/ n = Missing

\* options?.className || HTMLModal._uid
MarkerOf(cn) == IF cn = NoClass THEN Uid ELSE cn
\* options?.className ? options.className : "tunangn-modal"
ClassOf(cn) == IF cn = NoClass THEN "tunangn-modal" ELSE cn

\* Modal.registerItem(name, item): the entry for name is set, replacing any
registerItem(reg, n, it) == [reg EXCEPT ![n] = it]
\* Modal.getItem(name): the item, or undefined
getItem(reg, n) == IF reg[n] = NoEntry THEN UndefinedItem ELSE reg[n]

\* ------------------------------------------------------------------ state
VARIABLES
  hosts,        \* the HTMLModal instances constructed
  className,    \* per host: options.className (NoClass: not given)
  loaded,       \* DOMContentLoaded has been dispatched
  modal,        \* per host: this._modal is set
  container,    \* per host: this._modal.container (an element id, 0: none)
  registry,     \* per host: the items of this._modal, by name
  itemsInQueue, \* per host: this._itemsInQueue ([present, entries])
  body,         \* document.body's container elements, in order
  elems,        \* the container elements: marker, classes, style, children
  opens,        \* the open calls made, in call order
  nAdds,        \* addItem calls made
  nItems,       \* addItem calls that got past the name check
  lastAdded,    \* per host and name: the item value of the last call that stored one
  inTurn,       \* an open call was made since the last task ran (in this turn)
  appended,     \* per host: times its listener appended a container to body
  last          \* the last addItem call and what it returned, if it was the last step

vars == << hosts, className, loaded, modal, container, registry, itemsInQueue,
           body, elems, opens, nAdds, nItems, lastAdded, inTurn, appended, last >>

ElemIds == AllHosts
EmptyRegistry == [n \in Names |-> NoEntry]

\* what `last` holds after anything but an addItem call
Task == [op |-> "task", name |-> "", ret |-> "none"]

\* ------------------------------------------------------------------ constructor
\* new HTMLModal(options) for every host of hs: _init sets the queue of each and
\* adds its DOMContentLoaded listener
InitWith(hs, cns) ==
  /\ hosts = hs
  /\ className = cns
  /\ loaded = FALSE
  /\ modal = [h \in AllHosts |-> FALSE]
  /\ container = [h \in AllHosts |-> 0]
  /\ registry = [h \in AllHosts |-> EmptyRegistry]
  /\ itemsInQueue = [h \in AllHosts |->
                       [present |-> h \in hs, entries |-> << >>]]
  /\ body = << >>
  /\ elems = [e \in ElemIds |-> NewElement]
  /\ opens = << >>
  /\ nAdds = 0
  /\ nItems = 0
  /\ lastAdded = [h \in AllHosts |-> EmptyRegistry]
  /\ inTurn = FALSE
  /\ appended = [h \in AllHosts |-> 0]
  /\ last = Task

\* one host, constructed without options, before the document is ready
Init == InitWith({1}, [h \in AllHosts |-> NoClass])

\* ------------------------------------------------------------------ addItem
\* a check that misses the name left out
NameRejectedEmptyOnly(n) == n = ""

\* line 228: if(!options.name) throw
NameRejected(n) == Falsy(n)

\* lines 230-325: the switch on options.type; no case for another type, and
\* item stays undefined
BuildItem(id, n, t) ==
  IF t \in Kinds THEN [id |-> id, name |-> n, type |-> t] ELSE UndefinedItem

\* lines 327-336: register in the modal if it exists, else push on the queue
StoreRegistry(h, n, it) ==
  IF modal[h] THEN [registry EXCEPT ![h] = registerItem(@, n, it)] ELSE registry

\* a push that does not look at _modal
StoreQueueAlways(h, n, it) ==
  [itemsInQueue EXCEPT ![h].entries = Append(@, [name |-> n, item |-> it])]

StoreQueue(h, n, it) ==
  IF modal[h] THEN itemsInQueue
  ELSE [itemsInQueue EXCEPT ![h].entries = Append(@, [name |-> n, item |-> it])]

AddItem(h, n, t) ==
  /\ h \in hosts
  /\ nAdds < MaxAdds /\ nAdds + Len(opens) < MaxCalls
  /\ nAdds' = nAdds + 1
  /\ IF NameRejected(n)
     THEN \* caught at line 339: logged, return false
          /\ last' = [op |-> "addItem", name |-> n, ret |-> "false"]
          /\ UNCHANGED << registry, itemsInQueue, lastAdded, nItems >>
     ELSE /\ LET it == BuildItem(nItems + 1, n, t) IN
             /\ registry' = StoreRegistry(h, n, it)
             /\ itemsInQueue' = StoreQueue(h, n, it)
             /\ lastAdded' = [lastAdded EXCEPT ![h][n] = it]
          /\ nItems' = nItems + 1
          /\ last' = [op |-> "addItem", name |-> n, ret |-> "true"]
  /\ UNCHANGED << hosts, className, loaded, modal, container, body, elems,
                  opens, inTurn, appended >>

\* ------------------------------------------------------------------ _init's listener
Min(S) == CHOOSE x \in S : \A y \in S : x <= y

\* a loop that stops one entry early
RECURSIVE FlushDropsLast(_, _)
FlushDropsLast(reg, entries) ==
  IF Len(entries) <= 1 THEN reg
  ELSE FlushDropsLast(registerItem(reg, Head(entries).name, Head(entries).item),
                      Tail(entries))

\* a loop that drains the queue from its end
RECURSIVE FlushReverse(_, _)
FlushReverse(reg, entries) ==
  IF entries = << >> THEN reg
  ELSE FlushReverse(registerItem(reg, entries[Len(entries)].name,
                                 entries[Len(entries)].item),
                    SubSeq(entries, 1, Len(entries) - 1))

\* lines 148-151: for(let itemInQueue of this._itemsInQueue) registerItem(...)
RECURSIVE Flush(_, _)
Flush(reg, entries) ==
  IF entries = << >> THEN reg
  ELSE Flush(registerItem(reg, Head(entries).name, Head(entries).item),
             Tail(entries))

\* a query that finds nothing
QueryMarkerNone(b, es, marker) == 0

\* line 135: document.body.querySelector("[data-uid='...']") (0: null)
QueryMarker(b, es, marker) ==
  LET found == {i \in 1..Len(b) : es[b[i]].uid = marker}
  IN IF found = {} THEN 0 ELSE b[Min(found)]

\* lines 134-160: the listener of host h, on the document d
Listener(h, d) ==
  LET marker == MarkerOf(className[h])
      existing == QueryMarker(d.body, d.elems, marker)
      c == IF existing # 0 THEN existing ELSE h
      e0 == IF existing # 0 THEN d.elems[c]
            ELSE [NewElement EXCEPT !.classes = {ClassOf(className[h])}]
      e1 == [e0 EXCEPT !.style = addStyle(@, Default)]
      e2 == [e1 EXCEPT !.uid = marker]
  IN [d EXCEPT !.modal[h] = TRUE,
               !.container[h] = c,
               !.elems[c] = e2,
               !.registry[h] = Flush(EmptyRegistry, d.itemsInQueue[h].entries),
               !.itemsInQueue[h] = [present |-> FALSE, entries |-> << >>],
               !.body = Append(SelectSeq(d.body, LAMBDA x : x # c), c),
               !.appended[h] = @ + 1]

\* the dispatch calls the listeners in the order they were added, one callback
\* each: the listener due next (0: none left)
NextListener ==
  LET S == {h \in hosts : ~modal[h]} IN IF S = {} THEN 0 ELSE Min(S)

\* the dispatch has begun and a listener is still due: callbacks of the page
\* (other listeners, microtasks) run between two listeners, tasks do not
Dispatching == loaded /\ NextListener # 0

\* a promise job is queued (the fulfilment handler of line 211): it runs before
\* any other task starts
PendingJob == \E i \in 1..Len(opens) : opens[i].phase = "resolving"

\* a document that calls a listener a second time
DOMContentLoadedTwice ==
  /\ \E h \in hosts : appended[h] < 2
  /\ ~PendingJob
  /\ loaded' = TRUE
  /\ LET h == Min({g \in hosts : appended[g] < 2})
         d == Listener(h,
                [modal |-> modal, container |-> container, elems |-> elems,
                 registry |-> registry, itemsInQueue |-> itemsInQueue,
                 body |-> body, appended |-> appended]) IN
       /\ modal' = d.modal
       /\ container' = d.container
       /\ elems' = d.elems
       /\ registry' = d.registry
       /\ itemsInQueue' = d.itemsInQueue
       /\ body' = d.body
       /\ appended' = d.appended
  /\ inTurn' = IF loaded THEN inTurn ELSE FALSE
  /\ last' = Task
  /\ UNCHANGED << hosts, className, opens, nAdds, nItems, lastAdded >>

\* the document dispatches DOMContentLoaded, once: this step is the call of
\* the listener due next. The first call begins the task of the dispatch.
DOMContentLoaded ==
  /\ NextListener # 0
  /\ ~PendingJob
  /\ loaded' = TRUE
  /\ LET d == Listener(NextListener,
                [modal |-> modal, container |-> container, elems |-> elems,
                 registry |-> registry, itemsInQueue |-> itemsInQueue,
                 body |-> body, appended |-> appended]) IN
       /\ modal' = d.modal
       /\ container' = d.container
       /\ elems' = d.elems
       /\ registry' = d.registry
       /\ itemsInQueue' = d.itemsInQueue
       /\ body' = d.body
       /\ appended' = d.appended
  /\ inTurn' = IF loaded THEN inTurn ELSE FALSE
  /\ last' = Task
  /\ UNCHANGED << hosts, className, opens, nAdds, nItems, lastAdded >>

\* ------------------------------------------------------------------ open
\* lines 181-213: the call creates the promise and sets a 0 ms timer; nothing
\* else runs in the call. Every call is accepted, also for a name that has an
\* open in flight: each open has its own timer, promise and element.
OpenCall(h, n) ==
  /\ h \in hosts
  /\ Len(opens) < MaxOpens /\ nAdds + Len(opens) < MaxCalls
  /\ opens' = Append(opens,
       [host |-> h, name |-> n, phase |-> "timer", item |-> UndefinedItem,
        error |-> "none", promise |-> "pending", value |-> "none",
        result |-> "none",
        sameTurn |-> inTurn,
        atCall |-> IF ~modal[h] THEN "notReady"
                   ELSE IF getItem(registry[h], n) = UndefinedItem THEN "unregistered"
                   ELSE "registered"])
  /\ inTurn' = TRUE
  /\ last' = Task
  /\ UNCHANGED << hosts, className, loaded, modal, container, registry,
                  itemsInQueue, body, elems, nAdds, nItems, lastAdded,
                  appended >>

\* lines 186-188: what the timer's callback throws, if anything:
\* that._modal.getItem on an undefined _modal, item.setData on an undefined item
ModalUndefined == "TypeError: _modal is undefined"
ItemUndefined == "TypeError: item is undefined"

\* a callback that goes on without an item
BodyErrorInReadyOnly(ready, reg, n) ==
  IF ~ready THEN ModalUndefined ELSE "none"

BodyErrorIn(ready, reg, n) ==
  IF ~ready THEN ModalUndefined
  ELSE IF getItem(reg, n) = UndefinedItem THEN ItemUndefined
  ELSE "none"

BodyError(h, n) == BodyErrorIn(modal[h], registry[h], n)

\* a switch without the "side" case
OpenStyleNoSide(st, type) ==
  LET shown == [st EXCEPT !.display = "block"] IN
  CASE type = "dialog" -> addStyle(shown, TranparentBlackBG)
    [] type = "snack-bar" -> [shown EXCEPT !.pointerEvents = "none"]
    [] OTHER -> shown

\* lines 190-208: show the container, then the style of the item's type
OpenStyle(st, type) ==
  LET shown == [st EXCEPT !.display = "block"] IN
  CASE type = "dialog" -> addStyle(shown, TranparentBlackBG)
    [] type = "side" -> addStyle(shown, TranparentBlackBG)
    [] type = "snack-bar" -> [shown EXCEPT !.pointerEvents = "none"]
    [] OTHER -> shown

\* lines 350-352: _append
AppendChild(el, i) == [el EXCEPT !.children = Append(@, i)]

\* a reset that leaves the pointer-events override
RemoveStyleKeepsPointer(st, nChildren) ==
  IF nChildren = 0
  THEN [st EXCEPT !.backgroundColor = "", !.display = "none"]
  ELSE st

\* lines 359-363: the reset when no child is left
RemoveStyle(st, nChildren) ==
  IF nChildren = 0
  THEN [st EXCEPT !.backgroundColor = "", !.pointerEvents = "", !.display = "none"]
  ELSE st

\* lines 354-364: _remove
RemoveChild(el, i) ==
  LET left == SelectSeq(el.children, LAMBDA x : x # i)
  IN [el EXCEPT !.children = left, !.style = RemoveStyle(@, Len(left))]

\* the timers fire in the order they were set
NextTimer ==
  LET S == {i \in 1..Len(opens) : opens[i].phase = "timer"}
  IN IF S = {} THEN 0 ELSE Min(S)

\* a callback that acts on what the registry held when open was called
RunBodyAtCall(i, sync) ==
  /\ i # 0 /\ i = NextTimer
  /\ ~Dispatching /\ ~PendingJob
  /\ LET o == opens[i]
         h == o.host
         err == IF o.atCall = "notReady" THEN ModalUndefined
                ELSE IF o.atCall = "unregistered" THEN ItemUndefined
                ELSE BodyError(h, o.name)
         item == getItem(registry[h], o.name)
         c == container[h]
     IN IF err # "none"
        THEN /\ sync
             /\ opens' = [opens EXCEPT ![i].phase = "threw", ![i].error = err,
                                       ![i].atCall = "-"]
             /\ last' = Task
             /\ UNCHANGED elems
        ELSE /\ opens' = [opens EXCEPT ![i].phase = IF sync THEN "attached" ELSE "opening",
                                       ![i].item = item, ![i].atCall = "-"]
             /\ elems' = [elems EXCEPT ![c] =
                  LET styled == [@ EXCEPT !.style = OpenStyle(@, item.type)]
                  IN IF sync THEN AppendChild(styled, i) ELSE styled]
             /\ last' = Task
  /\ inTurn' = FALSE
  /\ UNCHANGED << hosts, className, loaded, modal, container, registry,
                  itemsInQueue, body, nAdds, nItems, lastAdded,
                  appended >>

\* lines 185-212: the timer's callback of open call i. sync: the item's open
\* mechanics call append before item.open returns
RunBody(i, sync) ==
  /\ i # 0 /\ i = NextTimer
  /\ ~Dispatching /\ ~PendingJob
  /\ LET o == opens[i]
         h == o.host
         err == BodyError(h, o.name)
         item == getItem(registry[h], o.name)
         c == container[h]
     IN IF err # "none"
        THEN \* thrown in the timer task: no handler, the promise is not settled
             /\ sync
             /\ opens' = [opens EXCEPT ![i].phase = "threw", ![i].error = err,
                                       ![i].atCall = "-"]
             /\ last' = Task
             /\ UNCHANGED elems
        ELSE /\ opens' = [opens EXCEPT ![i].phase = IF sync THEN "attached" ELSE "opening",
                                       ![i].item = item, ![i].atCall = "-"]
             /\ elems' = [elems EXCEPT ![c] =
                  LET styled == [@ EXCEPT !.style = OpenStyle(@, item.type)]
                  IN IF sync THEN AppendChild(styled, i) ELSE styled]
             /\ last' = Task
  /\ inTurn' = FALSE
  /\ UNCHANGED << hosts, className, loaded, modal, container, registry,
                  itemsInQueue, body, nAdds, nItems, lastAdded,
                  appended >>

\* the item's open mechanics call append after item.open has returned
Attach(i) ==
  /\ i \in 1..Len(opens)
  /\ opens[i].phase = "opening"
  /\ opens' = [opens EXCEPT ![i].phase = "attached"]
  /\ elems' = [elems EXCEPT ![container[opens[i].host]] = AppendChild(@, i)]
  /\ inTurn' = FALSE
  /\ last' = Task
  /\ UNCHANGED << hosts, className, loaded, modal, container, registry,
                  itemsInQueue, body, nAdds, nItems, lastAdded,
                  appended >>

\* the item's close action fires: its open mechanics call remove (_remove,
\* lines 354-364); the promise of open is not touched
Remove(i) ==
  /\ i \in 1..Len(opens)
  /\ opens[i].phase = "attached"
  /\ opens' = [opens EXCEPT ![i].phase = "removed"]
  /\ elems' = [elems EXCEPT ![container[opens[i].host]] = RemoveChild(@, i)]
  /\ inTurn' = FALSE
  /\ last' = Task
  /\ UNCHANGED << hosts, className, loaded, modal, container, registry,
                  itemsInQueue, body, nAdds, nItems, lastAdded,
                  appended >>

\* the item's open mechanics resolve the item's promise with result r, in the
\* task of the close action or in a later one: the handler of line 211 is
\* queued as a promise job
MechResolve(i, r) ==
  /\ i \in 1..Len(opens)
  /\ opens[i].phase = "removed"
  /\ opens' = [opens EXCEPT ![i].phase = "resolving", ![i].result = r]
  /\ inTurn' = FALSE
  /\ last' = Task
  /\ UNCHANGED << hosts, className, loaded, modal, container, registry,
                  itemsInQueue, body, elems, nAdds, nItems, lastAdded,
                  appended >>

\* line 211: the promise job result => resolve(result)
Resolve(i) ==
  /\ i \in 1..Len(opens)
  /\ opens[i].phase = "resolving"
  /\ opens' = [opens EXCEPT ![i].phase = "closed", ![i].promise = "resolved",
                            ![i].value = opens[i].result]
  /\ UNCHANGED << hosts, className, loaded, modal, container, registry,
                  itemsInQueue, body, elems, nAdds, nItems, lastAdded,
                  appended, inTurn, last >>

\* ------------------------------------------------------------------ specification
Next ==
  \/ \E h \in AllHosts, n \in NameInputs, t \in TypeInputs : AddItem(h, n, t)
  \/ DOMContentLoaded
  \/ \E h \in AllHosts, n \in Names : OpenCall(h, n)
  \/ \E sync \in BOOLEAN : RunBody(NextTimer, sync)
  \/ \E i \in 1..MaxOpens : Attach(i)
  \/ \E i \in 1..MaxOpens : Remove(i)
  \/ \E i \in 1..MaxOpens, r \in Results : MechResolve(i, r)
  \/ \E i \in 1..MaxOpens : Resolve(i)

Spec == Init /\ [][Next]_vars

\* ------------------------------------------------------------------ steps and views
OpenIds == 1..Len(opens)

\* this step is the timer callback of open call i
BodyRan(i) == opens[i].phase = "timer" /\ opens'[i].phase # "timer"

\* this step is the timer callback of open call i, and it got as far as item.open
BodyOpened(i) == opens[i].phase = "timer" /\ opens'[i].phase \in {"opening", "attached"}

\* this step is the close action of open call i (_remove)
Closed(i) == opens[i].phase = "attached" /\ opens'[i].phase = "removed"

\* open call i has had its element removed by its close action
Dismissed(i) == opens[i].phase \in {"removed", "resolving", "closed"}

\* this step is a listener of the DOMContentLoaded dispatch
Initialized == appended' # appended

\* the container element of a Ready host
ContainerOf(h) == elems[container[h]]

\* ------------------------------------------------------------------ C1
\* C1: an open of a name that no item is registered under, called while the host
\* is Ready and still unregistered when its timer fires, gets its promise
\* rejected in that task, and no error escapes the promise (the call itself
\* returns the promise without throwing: OpenCall has no failing branch).
C1_UnregisteredOpenRejects ==
  [][\A i \in OpenIds :
       (BodyRan(i) /\ opens[i].atCall = "unregistered"
          /\ BodyError(opens[i].host, opens[i].name) = ItemUndefined)
       => (opens'[i].promise = "rejected" /\ opens'[i].phase # "threw")]_vars

\* ------------------------------------------------------------------ C2
\* C2: an open whose timer fires while the host is not Ready (its _modal not
\* created yet) gets its promise rejected, also when an item of that name waits
\* in the queue.
C2_NotReadyOpenRejects ==
  [][\A i \in OpenIds :
       (BodyRan(i) /\ ~modal[opens[i].host])
       => (opens'[i].promise = "rejected" /\ opens'[i].phase # "threw")]_vars

\* ------------------------------------------------------------------ C3
\* the queue of host h just before its listener runs
Queued(h) == itemsInQueue[h].entries

\* after the listener, getItem(name) is this item and an open of name reaches item.open
Retrievable(h, n, it) ==
  /\ getItem(registry'[h], n) = it
  /\ BodyErrorIn(modal'[h], registry'[h], n) = "none"

\* C3 as stated: once the listener has run, every item queued before it is
\* retrievable by its name and openable.
C3_EveryQueuedItemRetrievable ==
  [][Initialized =>
       \A h \in hosts : \A k \in 1..Len(Queued(h)) :
         Queued(h)[k].item # UndefinedItem
           => Retrievable(h, Queued(h)[k].name, Queued(h)[k].item)]_vars

\* C3 (amended): once the listener has run, every item queued before it whose
\* name no later queue entry uses is retrievable by its name and openable,
\* wherever it stood in the queue.
C3_LastQueuedItemRetrievable ==
  [][Initialized =>
       \A h \in hosts : \A k \in 1..Len(Queued(h)) :
         (/\ Queued(h)[k].item # UndefinedItem
          /\ \A j \in (k + 1)..Len(Queued(h)) : Queued(h)[j].name # Queued(h)[k].name)
           => Retrievable(h, Queued(h)[k].name, Queued(h)[k].item)]_vars

\* the listener has just run (no addItem or open since) on a queue holding item
\* 1 under "b" and then item 2 under "a", and both are in the registry
C3_Witness ==
  /\ loaded /\ opens = << >> /\ last = Task
  /\ registry[1]["b"].id = 1 /\ registry[1]["a"].id = 2

\* ------------------------------------------------------------------ C4
\* C4: an addItem call with an empty or missing name returns false and changes
\* neither the queue, the registry nor the container, whether or not the host is
\* Ready.
C4_FalsyNameRegistersNothing ==
  [][(nAdds' # nAdds /\ Falsy(last'.name))
       => /\ last'.ret = "false"
          /\ UNCHANGED << itemsInQueue, registry, elems, body, container,
                          modal, lastAdded, opens >>]_vars

\* a Ready host with an item registered has just returned false for a call
\* that gave no name
C4_Witness ==
  /\ modal[1] /\ registry[1]["a"].id = 1
  /\ last = [op |-> "addItem", name |-> Missing, ret |-> "false"]

\* ------------------------------------------------------------------ C5
\* the empty/hidden state: display none, no background and no pointer-events override
Hidden(st) ==
  st.display = "none" /\ st.backgroundColor = "" /\ st.pointerEvents = ""

\* C5: when an item that was opened closes and its element was the only child
\* of the container, the container is left with display none, no background
\* override and no pointer-events override, whatever the item's kind and
\* whatever was opened and closed before.
C5_ClosingOnlyItemHidesContainer ==
  [][\A i \in OpenIds :
       (Closed(i) /\ ContainerOf(opens[i].host).children = << i >>)
       => Hidden(elems'[container[opens[i].host]].style)]_vars

\* a dialog was opened and closed, then a snack-bar was opened and closed, and
\* the container is empty and hidden
C5_Witness ==
  /\ Len(opens) = 2
  /\ opens[1].phase = "closed" /\ opens[1].item.type = "dialog"
  /\ opens[2].phase = "closed" /\ opens[2].item.type = "snack-bar"
  /\ ContainerOf(1).children = << >> /\ Hidden(ContainerOf(1).style)

\* ------------------------------------------------------------------ C6
\* the container style of a kind: translucent black and pointer events enabled
\* for dialog and side, no background and pointer events disabled for snack-bar
KindStyled(st, type) ==
  IF type = "snack-bar"
  THEN st.backgroundColor = "" /\ st.pointerEvents = "none"
  ELSE st.backgroundColor = "rgba(0, 0, 0, 0.2)" /\ st.pointerEvents # "none"

\* C6: an open that finds the container empty and hidden leaves it with display
\* block and the style of the item's kind.
C6_OpenShowsAndStyles ==
  [][\A i \in OpenIds :
       (/\ BodyOpened(i)
        /\ ContainerOf(opens[i].host).children = << >>
        /\ Hidden(ContainerOf(opens[i].host).style))
       => LET st == elems'[container[opens[i].host]].style IN
            st.display = "block" /\ KindStyled(st, opens'[i].item.type)]_vars

\* the first open, of a side item, has run: the container is shown with the
\* translucent background
C6_Witness ==
  /\ Len(opens) = 1 /\ opens[1].phase \in {"opening", "attached"}
  /\ opens[1].item.type = "side"
  /\ ContainerOf(1).style.display = "block"
  /\ ContainerOf(1).style.backgroundColor = "rgba(0, 0, 0, 0.2)"

\* ------------------------------------------------------------------ C7
\* C7: an open made while an item of another kind is still attached leaves the
\* container with exactly the background and pointer-events style of the newly
\* opened item's kind.
C7_LastOpenedKindStyles ==
  [][\A i \in OpenIds :
       (/\ BodyOpened(i)
        /\ \E j \in OpenIds :
             /\ j # i /\ opens[j].phase = "attached"
             /\ container[opens[j].host] = container[opens[i].host]
             /\ opens[j].item.type # opens'[i].item.type)
       => KindStyled(elems'[container[opens[i].host]].style,
                     opens'[i].item.type)]_vars

\* ------------------------------------------------------------------ C8
\* C8: the container of a Ready host is either empty and hidden, or has a child
\* and display block.
C8_HiddenOrOccupied ==
  \A h \in hosts :
    modal[h] =>
      \/ ContainerOf(h).children = << >> /\ Hidden(ContainerOf(h).style)
      \/ ContainerOf(h).children # << >> /\ ContainerOf(h).style.display = "block"

\* ------------------------------------------------------------------ C9
\* open call i reached item.open (its item was registered when its timer fired)
Opened(i) == opens[i].phase \in {"opening", "attached", "failed"} \/ Dismissed(i)

\* C9: for two open calls made one after the other in one turn, for two
\* different names of one host, that both reached item.open: from the moment one
\* of them has attached until both have closed, the container has display block.
C9_VisibleUntilBothClosed ==
  \A i \in OpenIds : \A j \in OpenIds :
    (/\ j = i + 1 /\ opens[j].sameTurn
     /\ opens[i].host = opens[j].host /\ opens[i].name # opens[j].name
     /\ Opened(i) /\ Opened(j)
     /\ \E k \in {i, j} : opens[k].phase = "attached" \/ Dismissed(k)
     /\ \E k \in {i, j} : ~Dismissed(k))
    => ContainerOf(opens[i].host).style.display = "block"

\* ------------------------------------------------------------------ C10
\* C10: in a Ready host the registry holds, under every name, the item of the
\* last addItem call made with that name, whether the calls were queued before
\* the ready signal and flushed or registered directly after it; two queued
\* calls with one name leave the second call's item.
C10_LastCallWins ==
  \A h \in hosts : modal[h] => \A n \in Names : registry[h][n] = lastAdded[h][n]

\* the listener has just run on a queue that held two entries named "a": the
\* registry holds the second item, and nothing under "b"
C10_Witness ==
  /\ loaded /\ opens = << >> /\ last = Task
  /\ nItems = 2 /\ registry[1]["a"].id = 2 /\ registry[1]["b"] = NoEntry

\* ------------------------------------------------------------------ C11
\* exactly one of the two destinations of addItem exists for host h
OneDestination(h) == itemsInQueue[h].present # modal[h]

\* this step is an addItem call that returned true
AddSucceeded == nAdds' # nAdds /\ last'.ret = "true"

\* C11: every constructed host has either its queue or its registry, never
\* both and never neither; a queue that is gone stays gone and gets no entry;
\* an addItem call that returns true on a Ready host sets the registry entry of
\* its name and touches no queue, and one that returns true before the ready
\* signal appends its entry to the queue and touches no registry.
C11_QueueThenRegistry ==
  [][/\ \A h \in hosts : OneDestination(h) /\ OneDestination(h)'
     /\ \A h \in hosts :
          ~itemsInQueue[h].present
            => ~itemsInQueue'[h].present /\ itemsInQueue'[h].entries = << >>
     /\ AddSucceeded =>
          \E h \in hosts :
            LET n == last'.name
                it == lastAdded'[h][n]
            IN IF modal[h]
               THEN /\ registry' = [registry EXCEPT ![h][n] = it]
                    /\ itemsInQueue' = itemsInQueue
               ELSE /\ itemsInQueue' = [itemsInQueue EXCEPT ![h].entries =
                                          Append(@, [name |-> n, item |-> it])]
                    /\ registry' = registry]_vars

\* the host is Ready and its queue is gone; item 1 is registered under "b" and
\* the call for item 2, under "a", has just returned true
C11_Witness ==
  /\ modal[1] /\ ~itemsInQueue[1].present
  /\ last = [op |-> "addItem", name |-> "a", ret |-> "true"]
  /\ registry[1]["b"].id = 1 /\ registry[1]["a"].id = 2

\* ------------------------------------------------------------------ C12
\* this step is the open call number i
Called(i) == Len(opens) = i - 1 /\ Len(opens') = i

\* C12: the open call itself only sets the timer: it leaves the container, the
\* registry and the queue as they are. The timer's callback works on the
\* registry as it is when the timer fires: an open of a name that was
\* unregistered on the Ready host when open was called, and that an addItem
\* call made before the timer fired has registered an item under, finds that
\* item and reaches item.open.
C12_OpenSeesLaterAddItem ==
  [][\A i \in 1..MaxOpens :
       /\ Called(i) =>
            /\ opens'[i].phase = "timer" /\ opens'[i].promise = "pending"
            /\ UNCHANGED << elems, registry, itemsInQueue, body >>
       /\ (/\ i \in OpenIds /\ BodyRan(i)
           /\ opens[i].atCall = "unregistered"
           /\ getItem(registry[opens[i].host], opens[i].name) # UndefinedItem)
          => /\ BodyOpened(i)
             /\ opens'[i].item = getItem(registry[opens[i].host], opens[i].name)]_vars

\* open("a") was called on the Ready host with nothing registered under "a",
\* and in the same turn (no task has run since) addItem has just registered
\* item 1 under "a"; the timer of the open is due
C12_Witness ==
  /\ Len(opens) = 1 /\ opens[1].name = "a" /\ opens[1].phase = "timer"
  /\ opens[1].atCall = "unregistered" /\ inTurn
  /\ last = [op |-> "addItem", name |-> "a", ret |-> "true"]
  /\ getItem(registry[1], "a").id = 1

\* ------------------------------------------------------------------ C13
\* the item's open mechanics fail after item.open has returned its promise and
\* before they have called append: that promise is rejected. Line 211 gives
\* then() a fulfilment handler only, so nothing settles the promise of open.
MechFail(i) ==
  /\ i \in 1..Len(opens)
  /\ opens[i].phase = "opening"
  /\ opens' = [opens EXCEPT ![i].phase = "failed", ![i].error = "item.open rejected"]
  /\ inTurn' = FALSE
  /\ last' = Task
  /\ UNCHANGED << hosts, className, loaded, modal, container, registry,
                  itemsInQueue, body, elems, nAdds, nItems, lastAdded,
                  appended >>

\* the host with items whose open mechanics can fail
NextMech ==
  \/ Next
  \/ \E i \in 1..MaxOpens : MechFail(i)

SpecMech == Init /\ [][NextMech]_vars

\* C13: the promise of an open that reached item.open is pending while the item
\* is opening or attached and until the item's mechanics have produced their
\* result and the handler of line 211 has run, is then resolved with exactly
\* that result, and is rejected once the item's open mechanics have failed.
C13_SettledByMechanics ==
  \A i \in OpenIds :
    /\ opens[i].phase \in {"opening", "attached", "removed", "resolving"}
         => opens[i].promise = "pending"
    /\ opens[i].phase = "closed" =>
         /\ opens[i].promise = "resolved"
         /\ opens[i].value \in Results /\ opens[i].value = opens[i].result
    /\ opens[i].phase = "failed" => opens[i].promise = "rejected"

\* ------------------------------------------------------------------ C14
\* how many times element c stands in document.body
TimesInBody(b, c) == Cardinality({k \in 1..Len(b) : b[k] = c})

\* C14: a host becomes Ready only in the DOMContentLoaded dispatch; its listener
\* appends a container to the body at most once; once the host is Ready no step
\* (addItem, open, the timer callback, append, remove) makes it not Ready,
\* gives it another container, changes the body or the container's marker and
\* classes; the container of a Ready host stands in the body exactly once.
C14_InitializedOnce ==
  [][\A h \in hosts :
       /\ appended'[h] <= 1
       /\ modal'[h] # modal[h] => Initialized /\ modal'[h] /\ appended'[h] = 1
       /\ modal[h] =>
            /\ modal'[h] /\ container'[h] = container[h] /\ body' = body
            /\ elems'[container[h]].uid = elems[container[h]].uid
            /\ elems'[container[h]].classes = elems[container[h]].classes
       /\ modal'[h] => TimesInBody(body', container'[h]) = 1]_vars

\* the host was initialized; an item was opened and closed and an addItem call
\* has just returned true: one append, one container in the body
C14_Witness ==
  /\ modal[1] /\ appended[1] = 1 /\ body = << container[1] >>
  /\ Len(opens) = 1 /\ opens[1].phase = "closed"
  /\ last.op = "addItem" /\ last.ret = "true"

\* ------------------------------------------------------------------ C15
\* The timer's callback of open, statement by statement. An open call between
\* "timer" and "opening"/"attached" is inside its callback; the callback is one
\* task, so nothing else runs while an open call is inside it.
MidPhases == {"resolved", "dataSet", "shown", "styled"}
MidBody == \E i \in OpenIds : opens[i].phase \in MidPhases

\* line 191: container.style.display = "block"
ShowStyle(st) == [st EXCEPT !.display = "block"]

\* lines 193-208: the switch on item.type
KindStyle(st, type) ==
  CASE type = "dialog" -> addStyle(st, TranparentBlackBG)
    [] type = "side" -> addStyle(st, TranparentBlackBG)
    [] type = "snack-bar" -> [st EXCEPT !.pointerEvents = "none"]
    [] OTHER -> st

\* open call i moves to phase p, the container of its host getting style st
StepTo(i, p, st) ==
  /\ opens' = [opens EXCEPT ![i].phase = p]
  /\ elems' = [elems EXCEPT ![container[opens[i].host]].style = st]
  /\ UNCHANGED << hosts, className, loaded, modal, container, registry,
                  itemsInQueue, body, nAdds, nItems, lastAdded, appended,
                  inTurn, last >>

\* line 186: the timer fires; let item = that._modal.getItem(name)
StepGetItem(i) ==
  /\ i # 0 /\ i = NextTimer /\ ~MidBody
  /\ ~Dispatching /\ ~PendingJob
  /\ LET h == opens[i].host IN
       opens' = IF ~modal[h]
                THEN [opens EXCEPT ![i].phase = "threw", ![i].error = ModalUndefined,
                                   ![i].atCall = "-"]
                ELSE [opens EXCEPT ![i].phase = "resolved", ![i].atCall = "-",
                                   ![i].item = getItem(registry[h], opens[i].name)]
  /\ inTurn' = FALSE
  /\ last' = Task
  /\ UNCHANGED << hosts, className, loaded, modal, container, registry,
                  itemsInQueue, body, elems, nAdds, nItems, lastAdded,
                  appended >>

\* line 188: item.setData(data); the data is the item's own
StepSetData(i) ==
  /\ i \in OpenIds /\ opens[i].phase = "resolved"
  /\ opens' = IF opens[i].item = UndefinedItem
              THEN [opens EXCEPT ![i].phase = "threw", ![i].error = ItemUndefined]
              ELSE [opens EXCEPT ![i].phase = "dataSet"]
  /\ UNCHANGED << hosts, className, loaded, modal, container, registry,
                  itemsInQueue, body, elems, nAdds, nItems, lastAdded,
                  appended, inTurn, last >>

\* line 191
StepShow(i) ==
  /\ i \in OpenIds /\ opens[i].phase = "dataSet"
  /\ StepTo(i, "shown", ShowStyle(ContainerOf(opens[i].host).style))

\* lines 193-208
StepKindStyle(i) ==
  /\ i \in OpenIds /\ opens[i].phase = "shown"
  /\ StepTo(i, "styled", KindStyle(ContainerOf(opens[i].host).style, opens[i].item.type))

\* an item.open called before the switch on item.type
StepItemOpenUnstyled(i, sync) ==
  /\ i \in OpenIds /\ opens[i].phase = "shown"
  /\ opens' = [opens EXCEPT ![i].phase = IF sync THEN "attached" ELSE "opening"]
  /\ elems' = IF sync
              THEN [elems EXCEPT ![container[opens[i].host]] = AppendChild(@, i)]
              ELSE elems
  /\ UNCHANGED << hosts, className, loaded, modal, container, registry,
                  itemsInQueue, body, nAdds, nItems, lastAdded, appended,
                  inTurn, last >>

\* lines 210-211: item.open(that._append, that._remove); sync as in RunBody
StepItemOpen(i, sync) ==
  /\ i \in OpenIds /\ opens[i].phase = "styled"
  /\ opens' = [opens EXCEPT ![i].phase = IF sync THEN "attached" ELSE "opening"]
  /\ elems' = IF sync
              THEN [elems EXCEPT ![container[opens[i].host]] = AppendChild(@, i)]
              ELSE elems
  /\ UNCHANGED << hosts, className, loaded, modal, container, registry,
                  itemsInQueue, body, nAdds, nItems, lastAdded, appended,
                  inTurn, last >>

\* the tasks other than the timer's callback; the addItem calls are those
\* that construct an item
OtherTask ==
  \/ \E h \in AllHosts, n \in Names, t \in Kinds : AddItem(h, n, t)
  \/ DOMContentLoaded
  \/ \E h \in AllHosts, n \in Names : OpenCall(h, n)
  \/ \E i \in 1..MaxOpens : Attach(i)
  \/ \E i \in 1..MaxOpens : Remove(i)
  \/ \E i \in 1..MaxOpens, r \in Results : MechResolve(i, r)
  \/ \E i \in 1..MaxOpens : Resolve(i)

NextSteps ==
  \/ ~MidBody /\ OtherTask
  \/ StepGetItem(NextTimer)
  \/ \E i \in 1..MaxOpens : StepSetData(i)
  \/ \E i \in 1..MaxOpens : StepShow(i)
  \/ \E i \in 1..MaxOpens : StepKindStyle(i)
  \/ \E i \in 1..MaxOpens, sync \in BOOLEAN : StepItemOpen(i, sync)

SpecSteps == Init /\ [][NextSteps]_vars

\* the phases of an open call, in the order the claim gives to the steps
OpenOrder ==
  { << "timer", "resolved" >>, << "resolved", "dataSet" >>,
    << "dataSet", "shown" >>, << "shown", "styled" >>,
    << "styled", "opening" >>, << "styled", "attached" >>,
    << "opening", "attached" >>, << "attached", "removed" >>,
    << "removed", "resolving" >>, << "resolving", "closed" >>,
    << "timer", "threw" >>, << "resolved", "threw" >> }

\* what the switch on the item's type sets: the translucent background and
\* pointer events for dialog and side, no pointer events for snack-bar
KindApplied(st, type) ==
  IF type = "snack-bar" THEN st.pointerEvents = "none"
  ELSE st.backgroundColor = "rgba(0, 0, 0, 0.2)" /\ st.pointerEvents = "auto"

\* element i is a child of the container of the host of open call i
IsChild(es, i) ==
  /\ modal[opens[i].host]
  /\ \E k \in 1..Len(es[container[opens[i].host]].children) :
       es[container[opens[i].host]].children[k] = i

\* C15: an open call goes through its steps in the order resolve the item, set
\* the data, show the container, apply the style of the item's kind, call
\* item.open, and only then is the item's element appended: the show step
\* leaves display block, the style step leaves the settings of the item's kind,
\* and the element is appended only in or after the item.open step, in the
\* callback itself with the container shown and styled for this item.
C15_StyledBeforeAttached ==
  [][\A i \in OpenIds :
       LET p == opens[i].phase
           q == opens'[i].phase
           item == opens'[i].item
           st == ContainerOf(opens[i].host).style
           stq == elems'[container[opens[i].host]].style
       IN /\ q # p => << p, q >> \in OpenOrder
          /\ (p = "timer" /\ q = "resolved")
               => item = getItem(registry[opens[i].host], opens[i].name)
          /\ q = "dataSet" => item # UndefinedItem /\ item = opens[i].item
          /\ q = "shown" => stq.display = "block"
          /\ q = "styled" => stq.display = "block" /\ KindApplied(stq, item.type)
          /\ (~IsChild(elems, i) /\ IsChild(elems', i))
               => /\ p \in {"styled", "opening"} /\ q = "attached"
                  /\ p = "styled" => st.display = "block" /\ KindApplied(st, item.type)]_vars

\* a snack-bar was opened and its element appended inside the callback: the
\* container is shown, without pointer events, and holds the element
C15_Witness ==
  /\ Len(opens) = 1 /\ opens[1].phase = "attached"
  /\ opens[1].item.type = "snack-bar"
  /\ ContainerOf(1).children = << 1 >>
  /\ ContainerOf(1).style.display = "block"
  /\ ContainerOf(1).style.pointerEvents = "none"

\* ------------------------------------------------------------------ C16
\* two hosts constructed before the document is ready, the first without
\* options, the second with or without a className of its own
InitShared ==
  \E cn \in {NoClass} \cup ClassNames :
    InitWith(AllHosts, [h \in AllHosts |-> IF h = 1 THEN NoClass ELSE cn])

\* the items the hosts are given: one name, a kind with and one without backdrop
SharedName == "a"
SharedKinds == {"dialog", "snack-bar"}

NextShared ==
  \/ \E h \in AllHosts, t \in SharedKinds : AddItem(h, SharedName, t)
  \/ DOMContentLoaded
  \/ \E h \in AllHosts : OpenCall(h, SharedName)
  \/ \E sync \in BOOLEAN : RunBody(NextTimer, sync)
  \/ \E i \in 1..MaxOpens : Attach(i)
  \/ \E i \in 1..MaxOpens : Remove(i)
  \/ \E i \in 1..MaxOpens, r \in Results : MechResolve(i, r)
  \/ \E i \in 1..MaxOpens : Resolve(i)

SpecShared == InitShared /\ [][NextShared]_vars

\* the elements of the body b that bear the marker
Marked(b, es, marker) == {k \in 1..Len(b) : es[b[k]].uid = marker}

\* C16: once the listener of a host has run, also between two listeners of the
\* dispatch, the body holds exactly one element with the marker of that host,
\* that element is the host's container, and the Ready hosts with one marker
\* have one container (the first listener creates it, the others adopt it);
\* and when the close action of an item removes the only
\* child left in a container, whichever host opened it and whether that host
\* created or adopted the container, the container is left empty and hidden.
C16_OneContainerPerMarker ==
  [][/\ \A h \in hosts :
          modal'[h] =>
            LET marker == MarkerOf(className[h]) IN
              /\ Cardinality(Marked(body', elems', marker)) = 1
              /\ elems'[container'[h]].uid = marker
              /\ TimesInBody(body', container'[h]) = 1
              /\ \A g \in hosts :
                   modal'[g] =>
                     (MarkerOf(className[g]) = marker <=> container'[g] = container'[h])
     /\ \A i \in OpenIds :
          (Closed(i) /\ ContainerOf(opens[i].host).children = << i >>)
            => /\ elems'[container[opens[i].host]].children = << >>
               /\ Hidden(elems'[container[opens[i].host]].style)]_vars

\* two hosts with the default marker share the container that host 1 created
\* and host 2 adopted; an item opened through each has closed, the one of the
\* adopting host last, and the container is empty and hidden
C16_Witness ==
  /\ hosts = {1, 2} /\ className[1] = NoClass /\ className[2] = NoClass
  /\ container[1] = 1 /\ container[2] = 1 /\ body = << 1 >>
  /\ Len(opens) = 2 /\ opens[1].host = 1 /\ opens[2].host = 2
  /\ opens[1].phase = "closed" /\ opens[2].phase = "closed"
  /\ ContainerOf(2).children = << >> /\ Hidden(ContainerOf(2).style)

\* ------------------------------------------------------------------ C17
\* the timer of open call i fires on a host that is not Ready, or that has no
\* item under the name
FailsAtTimer(i) ==
  \/ ~modal[opens[i].host]
  \/ getItem(registry[opens[i].host], opens[i].name) = UndefinedItem

\* C17: the timer callback of an open that finds the host not Ready or the name
\* unregistered stops there and changes no container (style, children), no
\* registry, no queue and nothing of the document; and after such a failure the
\* timer callback of an open of a registered item on the Ready host reaches
\* item.open with that item.
C17_FailedOpenChangesNothing ==
  [][\A i \in OpenIds :
       /\ (BodyRan(i) /\ FailsAtTimer(i))
            => /\ opens'[i].phase = "threw"
               /\ UNCHANGED << elems, registry, itemsInQueue, body, container,
                               modal >>
       /\ (/\ BodyRan(i) /\ ~FailsAtTimer(i)
           /\ \E j \in OpenIds : opens[j].phase = "threw")
            => /\ BodyOpened(i)
               /\ opens'[i].item = registry[opens[i].host][opens[i].name]]_vars

\* the first open failed on the Ready host for want of an item; the second
\* open, of item 1, then reached item.open and its element is the only child
C17_Witness ==
  /\ Len(opens) = 2 /\ modal[1]
  /\ opens[1].phase = "threw" /\ opens[1].error = ItemUndefined
  /\ opens[2].phase = "attached" /\ opens[2].item.id = 1
  /\ ContainerOf(1).children = << 2 >>

\* ------------------------------------------------------------------ C18
\* C18: every entry of a queue and every entry of a registry holds an item that
\* addItem constructed, of kind dialog, side or snack-bar; no entry holds
\* undefined.
C18_OnlyConstructedItemsStored ==
  \A h \in hosts :
    /\ \A k \in 1..Len(Queued(h)) : Queued(h)[k].item.type \in Kinds
    /\ \A n \in Names : registry[h][n] = NoEntry \/ registry[h][n].type \in Kinds

====
